---- MODULE Spec2Model ----
(***************************************************************************)
(* Model of the form-to-PDF transcription tool (ryo2120-sa/medical-scanner). *)
(*                                                                         *)
(* The state is the React component state of the paste-and-place variant   *)
(* (src/unnamed/part_000): the pasted text, the extracted fields, the font *)
(* size, the ordered sequence of placed images, the selection and the drag *)
(* snapshot held in the dragInfo ref.  FileReader loads started by a paste *)
(* are callbacks in flight; Date.now() is a clock that the environment     *)
(* advances.  Text is modelled as TLA+ strings, character by character.    *)
(* generatePDF writes a document: its text lines, its image embeds and its *)
(* file name.  Rotation and bake are modelled after the specification.     *)
(***************************************************************************)
EXTENDS Integers, Sequences, FiniteSets, TLC

VARIABLES
    inputText,        \* useState('')  : content of the textarea
    parsedData,       \* useState({})  : the extracted fields
    fontSize,         \* useState(14)
    images,           \* useState([])  : placed images, index 1 is bottom-most
    selectedImageId,  \* useState(null)
    dragInfo,         \* useRef({...}) : snapshot of the active interaction
    readers,          \* FileReader loads in flight (started by a paste)
    now,              \* the value Date.now() returns
    nDown,            \* number of mousedown events handled so far (bounded)
    saved,            \* the document written by the last step, NoDoc otherwise
    exportJob,        \* the export whose image bakes are awaited
    ocr               \* the state of the scanning App (src/src/App.jsx)

\* The state of the paste-and-place page.
pageVars == <<inputText, parsedData, fontSize, images, selectedImageId, dragInfo,
              readers, now, nDown, saved, exportJob>>

vars == <<inputText, parsedData, fontSize, images, selectedImageId, dragInfo,
          readers, now, nDown, saved, exportJob, ocr>>

(***************************************************************************)
(* Bounds of the model.                                                    *)
(***************************************************************************)
MaxLines == 2          \* lines per generated input text
MaxImages == 2         \* images placed or being read at one time
MaxClock == 2          \* largest value of Date.now()
MaxDown == 1           \* mousedown events per behaviour

null == 0              \* JavaScript null (ids are positive timestamps)

(***************************************************************************)
(* Strings.                                                                *)
(***************************************************************************)
UpperLetters == "ABCDEFGHIJKLMNOPQRSTUVWXYZ"
LowerLetters == "abcdefghijklmnopqrstuvwxyz"

CharAt(s, i) == SubSeq(s, i, i)

\* The value of F at e, with e evaluated once (a let-binding by value).
Bind(e, F(_)) == CHOOSE r \in {F(x) : x \in {e}} : TRUE

\* Case folding of one character, as the 'i' flag of RegExp does for ASCII.
foldChar ==
    [c \in {CharAt(UpperLetters, i) : i \in 1..26} |->
        CharAt(LowerLetters, CHOOSE i \in 1..26 : CharAt(UpperLetters, i) = c)]

RECURSIVE foldCase(_)
foldCase(s) ==
    IF s = "" THEN ""
    ELSE IF Len(s) = 1 THEN (IF s \in DOMAIN foldChar THEN foldChar[s] ELSE s)
    ELSE Bind(Len(s) \div 2, LAMBDA h :
              foldCase(SubSeq(s, 1, h)) \o foldCase(SubSeq(s, h + 1, Len(s))))

MinOf(S) == CHOOSE i \in S : \A j \in S : i <= j
MaxOf(S) == CHOOSE i \in S : \A j \in S : i >= j

\* Characters the RegExp dot does not match.
LineTerminators == {"\n", "\r"}
\* Characters of the class [ \t].
Blanks == {" ", "\t"}
\* Characters String.prototype.trim removes.
WhiteSpace == {" ", "\t", "\n", "\r", "\f"}

\* First position >= j of s whose character is not in set C (Len(s)+1 if none):
\* where a greedy C* starting at j stops.
SkipWhile(s, j, C) ==
    MinOf({k \in j..Len(s) : CharAt(s, k) \notin C} \cup {Len(s) + 1})

\* String.prototype.trim
trim(s) ==
    LET keep == {k \in 1..Len(s) : CharAt(s, k) \notin WhiteSpace}
    IN IF keep = {} THEN "" ELSE SubSeq(s, MinOf(keep), MaxOf(keep))

\* String.prototype.includes for a one-character needle
includes(s, c) == \E k \in 1..Len(s) : CharAt(s, k) = c

\* Position of the leftmost occurrence of lab in low, 0 if none.
FirstIndex(low, lab) ==
    LET n  == Len(lab)
        at == {i \in 1..(Len(low) - n + 1) : SubSeq(low, i, i + n - 1) = lab}
    IN IF at = {} THEN 0 ELSE MinOf(at)

\* Position of the leftmost case-insensitive occurrence of label in text, 0 if none.
IndexOfLabel(text, label) ==
    Bind(foldCase(text), LAMBDA low :
    Bind(foldCase(label), LAMBDA lab : FirstIndex(low, lab)))

\* Where a greedy dot-star starting at position c of text stops.
EndOfLine(text, c) ==
    MinOf({k \in c..Len(text) : CharAt(text, k) \in LineTerminators} \cup {Len(text) + 1})

(***************************************************************************)
(* new RegExp(label + tail, 'i') throws a SyntaxError when the pattern is   *)
(* not well formed.  The tail  [ \t]*[:;]?[ \t]*(dot-star)  is well formed  *)
(* and begins with an atom, so the outcome depends on the label: a group    *)
(* left open, a ")" without its "(", a quantifier with nothing to repeat,  *)
(* or "(?" that begins no group specifier.  Modelled for labels whose       *)
(* pattern characters are ( ) * + ? ; every other character is read as an   *)
(* atom.  depth is the number of open groups; q is "atom" after something   *)
(* that can be repeated, "quant" after a quantifier, "none" otherwise.      *)
(***************************************************************************)
RECURSIVE ScanThrows(_, _, _, _)
ScanThrows(label, i, depth, q) ==
    IF i > Len(label) THEN depth > 0
    ELSE Bind(CharAt(label, i), LAMBDA c :
        IF c = "("
        THEN IF i < Len(label) /\ CharAt(label, i + 1) = "?"
             THEN IF i + 1 < Len(label) /\ CharAt(label, i + 2) \in {":", "=", "!"}
                  THEN ScanThrows(label, i + 3, depth + 1, "none")
                  ELSE TRUE
             ELSE ScanThrows(label, i + 1, depth + 1, "none")
        ELSE IF c = ")"
        THEN IF depth = 0 THEN TRUE ELSE ScanThrows(label, i + 1, depth - 1, "atom")
        ELSE IF c \in {"*", "+"}
        THEN IF q = "atom" THEN ScanThrows(label, i + 1, depth, "quant") ELSE TRUE
        ELSE IF c = "?"
        THEN IF q = "atom" THEN ScanThrows(label, i + 1, depth, "quant")
             ELSE IF q = "quant" THEN ScanThrows(label, i + 1, depth, "none")
             ELSE TRUE
        ELSE ScanThrows(label, i + 1, depth, "atom"))

\* A label without pattern characters compiles.
PatternChars == {"(", ")", "*", "+", "?"}
RegExpThrows(label) ==
    IF \A k \in 1..Len(label) : CharAt(label, k) \notin PatternChars THEN FALSE
    ELSE ScanThrows(label, 1, 0, "none")

(***************************************************************************)
(* text.match(regex) for the pattern  label [ \t]* [:;]? [ \t]* (dot-star)  *)
(* compiled with the flag i.                                               *)
(* Every part after the label can match the empty string, so the match is  *)
(* at the leftmost occurrence of the label and each greedy part takes all  *)
(* it can.  The result is the array [match] with the capture as match[1],  *)
(* or <<>> for null.                                                       *)
(***************************************************************************)
matchLabel(text, label) ==
    Bind(IndexOfLabel(text, label), LAMBDA i :
        IF i = 0 THEN <<>>
        ELSE Bind(SkipWhile(text, i + Len(label), Blanks), LAMBDA a :
             Bind(IF a <= Len(text) /\ CharAt(text, a) \in {":", ";"} THEN a + 1 ELSE a,
                  LAMBDA b :
             Bind(SkipWhile(text, b, Blanks), LAMBDA c :
             Bind(EndOfLine(text, c), LAMBDA d : <<SubSeq(text, c, d - 1)>>)))))

\* findValue with the anti-bleed test written with || for &&.
RECURSIVE findValueOr(_, _)
findValueOr(text, labels) ==
    IF labels = <<>> THEN ""
    ELSE IF RegExpThrows(Head(labels)) THEN findValueOr(text, Tail(labels))
    ELSE Bind(matchLabel(text, Head(labels)), LAMBDA match :
            IF match # <<>> /\ match[1] # ""
            THEN Bind(trim(match[1]), LAMBDA val :
                    IF includes(val, ":") \/ Len(val) < 20 THEN "" ELSE val)
            ELSE findValueOr(text, Tail(labels)))

\* findValue without the final return of the empty string: the field then
\* prints as the text undefined.
RECURSIVE findValueNoDefault(_, _)
findValueNoDefault(text, labels) ==
    IF labels = <<>> THEN "undefined"
    ELSE IF RegExpThrows(Head(labels)) THEN findValueNoDefault(text, Tail(labels))
    ELSE Bind(matchLabel(text, Head(labels)), LAMBDA match :
            IF match # <<>> /\ match[1] # ""
            THEN Bind(trim(match[1]), LAMBDA val :
                    IF includes(val, ":") /\ Len(val) < 20 THEN "" ELSE val)
            ELSE findValueNoDefault(text, Tail(labels)))

\* findValue without the try and catch: the SyntaxError of new RegExp escapes,
\* and what the caller has in place of a value is the error.
RECURSIVE findValueNoCatch(_, _)
findValueNoCatch(text, labels) ==
    IF labels = <<>> THEN ""
    ELSE IF RegExpThrows(Head(labels)) THEN "SyntaxError: Invalid regular expression"
    ELSE Bind(matchLabel(text, Head(labels)), LAMBDA match :
            IF match # <<>> /\ match[1] # ""
            THEN Bind(trim(match[1]), LAMBDA val :
                    IF includes(val, ":") /\ Len(val) < 20 THEN "" ELSE val)
            ELSE findValueNoCatch(text, Tail(labels)))

\* findValue of parseData: labels is the labelArray.  A label whose pattern
\* does not compile is passed over (catch (e) { continue; }).
RECURSIVE findValue(_, _)
findValue(text, labels) ==
    IF labels = <<>> THEN ""
    ELSE IF RegExpThrows(Head(labels)) THEN findValue(text, Tail(labels))
    ELSE Bind(matchLabel(text, Head(labels)), LAMBDA match :
            IF match # <<>> /\ match[1] # ""
            THEN Bind(trim(match[1]), LAMBDA val :
                    IF includes(val, ":") /\ Len(val) < 20 THEN "" ELSE val)
            ELSE findValue(text, Tail(labels)))

\* The candidate labels of each field, in the order parseData passes them.
NameLabels == <<"Patient Name">>
AddressLabels == <<"Address">>
CityStateZipLabels == <<"City, State, Zip">>
HomePhoneLabels == <<"Home Phone Number", "Home Phone">>
DaytimePhoneLabels == <<"Daytime Phone Number", "Daytime Phone", "Work Phone", "Cell Phone">>
EmergencyContactLabels == <<"Emergency Contact", "Emerg Contact">>
EmergencyPhoneLabels == <<"Emergency Phone", "Emergency Phone Number", "Emerg Phone">>
DobLabels == <<"Date of Birth">>
AgeLabels == <<"AGE">>
SexLabels == <<"SEX">>

\* The object parseData passes to setParsedData.
parseData(text) ==
    [name             |-> findValue(text, NameLabels),
     address          |-> findValue(text, AddressLabels),
     cityStateZip     |-> findValue(text, CityStateZipLabels),
     homePhone        |-> findValue(text, HomePhoneLabels),
     daytimePhone     |-> findValue(text, DaytimePhoneLabels),
     emergencyContact |-> findValue(text, EmergencyContactLabels),
     emergencyPhone   |-> findValue(text, EmergencyPhoneLabels),
     dob              |-> findValue(text, DobLabels),
     age              |-> findValue(text, AgeLabels),
     sex              |-> findValue(text, SexLabels)]

(***************************************************************************)
(* Input texts: every text of at most MaxLines lines drawn from Lines and  *)
(* joined by a newline, and a few whole documents.                         *)
(***************************************************************************)
Lines ==
    {"Patient Name: Jane Doe",
     "Patient Name: John Roe",
     "PATIENT NAME",
     "Address: 12 Oak St",
     "Home Phone Number: 555-1212",
     "Daytime Phone Number: 555-1212",
     "Daytime Phone: Emergency Contact: Bob",
     "Emergency Contact: Bob",
     "Emergency Phone Number: 555-1212",
     "Emergency Phone: 555-3434",
     "Emerg Phone: 555-1212",
     "Daytime Phone:",
     "Daytime Phone: \f",
     "Work Phone: 555-7878",
     "Date of Birth: 01/01/1980",
     "AGE: 45",
     "no label on this line"}

RECURSIVE JoinLines(_)
JoinLines(ls) ==
    IF ls = <<>> THEN ""
    ELSE IF Len(ls) = 1 THEN ls[1]
    ELSE ls[1] \o "\n" \o JoinLines(Tail(ls))

EndToEndText == "Patient Name: Alice Smith\nDate of Birth: 01/01/1980\nAGE: 45\nSEX: F"

Documents ==
    {EndToEndText,
     "Patient Name: Jane Doe\r\nSEX: F\r\n"}

Texts ==
    {JoinLines(ls) : ls \in UNION {[1..n -> Lines] : n \in 0..MaxLines}} \cup Documents

(***************************************************************************)
(* State after construction and the mount effect parseData('').            *)
(***************************************************************************)
\* The initial value of the dragInfo ref.
InitialDrag ==
    [isDragging |-> FALSE, isResizing |-> FALSE, startX |-> 0, startY |-> 0,
     initialX |-> 0, initialY |-> 0, initialW |-> 0, initialH |-> 0,
     targetId |-> null]

NoDoc == [lines |-> <<>>, embeds |-> <<>>, filename |-> ""]

\* The scanning App after construction.  A value that may be null is a
\* sequence: <<>> for null, <<v>> for the value v.  recognitions are the
\* Tesseract.recognize promises not yet settled, each with the image and
\* parsedData displayed when its upload began; alert is the message the last
\* step showed, "" if none.
InitialOcr ==
    [image |-> <<>>, loading |-> FALSE, progress |-> 0, parsedData |-> <<>>,
     recognitions |-> <<>>, alert |-> ""]

\* No export is awaiting a bake.
NoJob == [running |-> FALSE, images |-> <<>>, baked |-> <<>>, embedded |-> <<>>,
          doc |-> NoDoc]

Init ==
    /\ inputText = ""
    /\ parsedData = parseData("")
    /\ fontSize = 14
    /\ images = <<>>
    /\ selectedImageId = null
    /\ dragInfo = InitialDrag
    /\ readers = <<>>
    /\ now = 1
    /\ nDown = 0
    /\ saved = NoDoc
    /\ exportJob = NoJob
    /\ ocr = InitialOcr

\* onChange of the textarea (or the Clear Text button with t = ''): setInputText(t),
\* after which the effect on [inputText] runs parseData(inputText).
SetInputText(t) ==
    /\ inputText' = t
    /\ parsedData' = parseData(t)
    /\ saved' = NoDoc
    /\ UNCHANGED <<ocr, exportJob, fontSize, images, selectedImageId, dragInfo, readers, now, nDown>>

\* The field extractor alone: a text is entered into the empty textarea, or
\* the textarea is cleared.
NextExtract ==
    \/ \E t \in Texts \ {""} : inputText = "" /\ SetInputText(t)
    \/ inputText # "" /\ SetInputText("")

SpecExtract == Init /\ [][NextExtract]_vars


(***************************************************************************)
(* The text-only variant (src/unnamed/part_001, saved as _top_half.pdf):   *)
(* findValue takes one label and its pattern is                            *)
(*     label \s* [:;]? \s* (dot-star)        with the flag i.              *)
(* Every part after the label can match the empty string, so the match is  *)
(* at the leftmost occurrence of the label and each greedy part takes all  *)
(* it can; \s also matches the line terminators.  The component state is   *)
(* inputText and parsedData, the latter with the fields of this variant.   *)
(***************************************************************************)
matchLabelTopHalf(text, label) ==
    Bind(IndexOfLabel(text, label), LAMBDA i :
        IF i = 0 THEN <<>>
        ELSE Bind(SkipWhile(text, i + Len(label), WhiteSpace), LAMBDA a :
             Bind(IF a <= Len(text) /\ CharAt(text, a) \in {":", ";"} THEN a + 1 ELSE a,
                  LAMBDA b :
             Bind(SkipWhile(text, b, WhiteSpace), LAMBDA c :
             Bind(EndOfLine(text, c), LAMBDA d : <<SubSeq(text, c, d - 1)>>)))))

\* findValue of part_001: match ? match[1].trim() : ''
findValueTopHalf(text, label) ==
    IF RegExpThrows(label) THEN ""                     \* catch (e) { return ''; }
    ELSE Bind(matchLabelTopHalf(text, label), LAMBDA match :
             IF match # <<>> THEN trim(match[1]) ELSE "")

\* a || b for strings
Or(a, b) == IF a # "" THEN a ELSE b

\* The object parseData of part_001 passes to setParsedData.
parseDataTopHalf(text) ==
    [name             |-> findValueTopHalf(text, "Patient Name"),
     address          |-> findValueTopHalf(text, "Address"),
     cityStateZip     |-> findValueTopHalf(text, "City, State, Zip"),
     homePhone        |-> findValueTopHalf(text, "Home Phone Number"),
     daytimePhone     |-> findValueTopHalf(text, "Daytime Phone Number"),
     emergencyContact |-> findValueTopHalf(text, "Emergency Contact"),
     emergencyPhone   |-> Or(findValueTopHalf(text, "Emergency Phone"),
                             findValueTopHalf(text, "Emergency Phone Number")),
     dob              |-> findValueTopHalf(text, "Date of Birth"),
     age              |-> findValueTopHalf(text, "AGE"),
     sex              |-> findValueTopHalf(text, "SEX"),
     referral         |-> findValueTopHalf(text, "Referral"),
     insurance        |-> Or(findValueTopHalf(text, "Insurance Carrier"),
                             findValueTopHalf(text, "Primary Insurance")),
     subscriber       |-> Or(findValueTopHalf(text, "Insured ID"),
                             Or(findValueTopHalf(text, "Member ID"),
                                findValueTopHalf(text, "Policy Number"))),
     group            |-> Or(findValueTopHalf(text, "Group"),
                             findValueTopHalf(text, "Group Number"))]

InitTopHalf ==
    /\ inputText = ""
    /\ parsedData = parseDataTopHalf("")
    /\ fontSize = 14
    /\ images = <<>>
    /\ selectedImageId = null
    /\ dragInfo = InitialDrag
    /\ readers = <<>>
    /\ now = 1
    /\ nDown = 0
    /\ saved = NoDoc
    /\ exportJob = NoJob
    /\ ocr = InitialOcr

SetInputTextTopHalf(t) ==
    /\ inputText' = t
    /\ parsedData' = parseDataTopHalf(t)
    /\ UNCHANGED <<ocr, exportJob, fontSize, images, selectedImageId, dragInfo, readers, now,
                   nDown, saved>>

EnterTextTopHalf == \E t \in Texts \ {""} : inputText = "" /\ SetInputTextTopHalf(t)
ClearTextTopHalf == inputText # "" /\ SetInputTextTopHalf("")

NextTopHalf ==
    \/ EnterTextTopHalf
    \/ ClearTextTopHalf

SpecTopHalf == InitTopHalf /\ [][NextTopHalf]_vars


(***************************************************************************)
(* The image model.                                                        *)
(***************************************************************************)
Bitmaps == {"dataA", "dataB"}                  \* data URLs a FileReader delivers
Pointer == {<<0, 0>>, <<-200, -300>>}     \* clientX, clientY of mouse events

\* JavaScript undefined, as an array element
undefined == [undefined |-> TRUE]

\* Array.prototype.find(img => img.id === id)
find(arr, id) ==
    LET at == {k \in 1..Len(arr) : arr[k] # undefined /\ arr[k].id = id}
    IN IF at = {} THEN undefined ELSE arr[MinOf(at)]

\* Array.prototype.filter(img => img.id !== id)
filterOut(arr, id) == SelectSeq(arr, LAMBDA img : img.id # id)

Max(a, b) == IF a >= b THEN a ELSE b
Min(a, b) == IF a <= b THEN a ELSE b

\* handlePaste: the first image item of the clipboard is handed to a FileReader.
\* The onload callback calls the addNewImage of the render in which the paste
\* listener was registered; of the images of that render it reads the length.
handlePaste(blob) ==
    /\ readers' = Append(readers, [src |-> blob, length |-> Len(images)])
    /\ saved' = NoDoc
    /\ UNCHANGED <<ocr, exportJob, inputText, parsedData, fontSize, images, selectedImageId,
                   dragInfo, now, nDown>>

\* The image addNewImage builds; length is images.length in its closure.
newImage(src, length) ==
    LET offset == (length % 10) * 15
    IN [id |-> now, src |-> src, x |-> 20 + offset, y |-> 100 + offset,
        width |-> 150, height |-> 100]

\* reader.onload of the k-th reader in flight: addNewImage(event.target.result)
addNewImage(k) ==
    LET img == newImage(readers[k].src, readers[k].length)
    IN /\ images' = Append(images, img)
       /\ selectedImageId' = img.id
       /\ readers' = [j \in 1..(Len(readers) - 1) |->
                         IF j < k THEN readers[j] ELSE readers[j + 1]]
       /\ saved' = NoDoc
       /\ UNCHANGED <<ocr, exportJob, inputText, parsedData, fontSize, dragInfo, now, nDown>>

\* Time passes: Date.now() returns a larger value.
Tick ==
    /\ now' = now + 1
    /\ saved' = NoDoc
    /\ UNCHANGED <<ocr, exportJob, inputText, parsedData, fontSize, images, selectedImageId,
                   dragInfo, readers, nDown>>

removeImage(id) ==
    /\ images' = filterOut(images, id)
    /\ selectedImageId' = IF selectedImageId = id THEN null ELSE selectedImageId
    /\ saved' = NoDoc
    /\ UNCHANGED <<ocr, exportJob, inputText, parsedData, fontSize, dragInfo, readers, now, nDown>>

\* onMouseDown of the page background: setSelectedImageId(null)
deselect ==
    /\ selectedImageId' = null
    /\ saved' = NoDoc
    /\ UNCHANGED <<ocr, exportJob, inputText, parsedData, fontSize, images, dragInfo, readers,
                   now, nDown>>

\* A bring-to-front that leaves the array as it is.
bringToFrontKeep(prev, id) == prev

\* The updater handleMouseDown passes to setImages (bring to front).
bringToFront(prev, id) ==
    LET imgToMove == find(prev, id)
        others    == filterOut(prev, id)
    IN Append(others, imgToMove)

\* A handleMouseDown that keeps the snapshot of an active interaction.
handleMouseDownFirstWins(id, type, clientX, clientY) ==
    LET img == find(images, id)
    IN /\ selectedImageId' = id
       /\ images' = bringToFront(images, id)
       /\ dragInfo' = IF img = undefined \/ dragInfo.isDragging \/ dragInfo.isResizing
                      THEN dragInfo
                      ELSE [isDragging |-> (type = "move"),
                            isResizing |-> (type = "resize"),
                            startX |-> clientX, startY |-> clientY,
                            initialX |-> img.x, initialY |-> img.y,
                            initialW |-> img.width, initialH |-> img.height,
                            targetId |-> id]
       /\ nDown' = nDown + 1
       /\ saved' = NoDoc
       /\ UNCHANGED <<ocr, exportJob, inputText, parsedData, fontSize, readers, now>>

handleMouseDown(id, type, clientX, clientY) ==
    LET img == find(images, id)
    IN /\ selectedImageId' = id
       /\ images' = bringToFront(images, id)
       /\ dragInfo' = IF img = undefined THEN dragInfo
                      ELSE [isDragging |-> (type = "move"),
                            isResizing |-> (type = "resize"),
                            startX |-> clientX, startY |-> clientY,
                            initialX |-> img.x, initialY |-> img.y,
                            initialW |-> img.width, initialH |-> img.height,
                            targetId |-> id]
       /\ nDown' = nDown + 1
       /\ saved' = NoDoc
       /\ UNCHANGED <<ocr, exportJob, inputText, parsedData, fontSize, readers, now>>

\* The mapping of handleMouseMove without the Math.max floor.
movedNoFloor(img, info, dx, dy) ==
    IF img.id # info.targetId THEN img
    ELSE IF info.isDragging
         THEN [img EXCEPT !.x = info.initialX + dx, !.y = info.initialY + dy]
    ELSE IF info.isResizing
         THEN [img EXCEPT !.width = info.initialW + dx,
                          !.height = info.initialH + dy]
    ELSE img

\* The mapping of handleMouseMove that adds the delta to the current geometry.
movedIncremental(img, info, dx, dy) ==
    IF img.id # info.targetId THEN img
    ELSE IF info.isDragging
         THEN [img EXCEPT !.x = img.x + dx, !.y = img.y + dy]
    ELSE IF info.isResizing
         THEN [img EXCEPT !.width = Max(20, img.width + dx),
                          !.height = Max(20, img.height + dy)]
    ELSE img

\* The image handleMouseMove maps img to.
moved(img, info, dx, dy) ==
    IF img.id # info.targetId THEN img
    ELSE IF info.isDragging
         THEN [img EXCEPT !.x = info.initialX + dx, !.y = info.initialY + dy]
    ELSE IF info.isResizing
         THEN [img EXCEPT !.width = Max(20, info.initialW + dx),
                          !.height = Max(20, info.initialH + dy)]
    ELSE img

handleMouseMove(clientX, clientY) ==
    LET info == dragInfo
    IN /\ IF ~info.isDragging /\ ~info.isResizing
          THEN images' = images
          ELSE LET dx == clientX - info.startX
                   dy == clientY - info.startY
               IN images' = [k \in 1..Len(images) |-> moved(images[k], info, dx, dy)]
       /\ saved' = NoDoc
       /\ UNCHANGED <<ocr, exportJob, inputText, parsedData, fontSize, selectedImageId, dragInfo,
                      readers, now, nDown>>

\* A handleMouseUp that also clears the selection.
handleMouseUpDeselect ==
    /\ dragInfo' = [isDragging |-> FALSE, isResizing |-> FALSE, targetId |-> null]
    /\ selectedImageId' = null
    /\ saved' = NoDoc
    /\ UNCHANGED <<ocr, exportJob, inputText, parsedData, fontSize, images, readers, now,
                   nDown>>

handleMouseUp ==
    /\ dragInfo' = [isDragging |-> FALSE, isResizing |-> FALSE, targetId |-> null]
    /\ saved' = NoDoc
    /\ UNCHANGED <<ocr, exportJob, inputText, parsedData, fontSize, images, selectedImageId,
                   readers, now, nDown>>

\* The ids of the images on the page.
Ids == {images[k].id : k \in 1..Len(images)}

(***************************************************************************)
(* The events of the image model as the page delivers them: an image is    *)
(* pressed to move it, the resize handle and the delete button exist only  *)
(* on the selected image, and the window listeners for mousemove and       *)
(* mouseup are registered from a mousedown until the next mouseup.         *)
(***************************************************************************)
Paste == \E b \in Bitmaps : Len(images) + Len(readers) < MaxImages /\ handlePaste(b)
ReaderLoad == \E k \in 1..Len(readers) : addNewImage(k)
ClockTick == now < MaxClock /\ Tick
MouseDownMove ==
    \E id \in Ids, p \in Pointer : nDown < MaxDown /\ handleMouseDown(id, "move", p[1], p[2])
MouseDownResize ==
    \E id \in Ids, p \in Pointer :
        nDown < MaxDown /\ id = selectedImageId /\ handleMouseDown(id, "resize", p[1], p[2])
MouseMove == \E p \in Pointer : handleMouseMove(p[1], p[2])
MouseUp == (dragInfo.isDragging \/ dragInfo.isResizing) /\ handleMouseUp
Remove == \E id \in Ids : id = selectedImageId /\ removeImage(id)
Deselect == deselect

NextImage ==
    \/ Paste
    \/ ReaderLoad
    \/ ClockTick
    \/ MouseDownMove
    \/ MouseDownResize
    \/ MouseMove
    \/ MouseUp
    \/ Remove
    \/ Deselect

SpecImage == Init /\ [][NextImage]_vars


(***************************************************************************)
(* Export: generatePDF.  Lengths on the page are in units of 10^-5 mm, so  *)
(* that the products of the code's decimal factors are integers.           *)
(***************************************************************************)
marginLeft == 15
marginTop == 15
paperWidthPx == 400
paperWidthMm == 21590000                          \* 215.9 mm
scaleFactor == paperWidthMm \div paperWidthPx     \* 0.53975 mm per pixel

\* (fontSize * 0.3527) * 1.5 mm
lineHeight(fs) == fs * 52905

\* printLine that writes the line of an empty value too.
printLineAlways(doc, lh, label, value) ==
    [lines    |-> Append(doc.lines,
                         [label |-> label \o ":", value |-> value, y |-> doc.currentY]),
     currentY |-> doc.currentY + lh]

\* printLine(label, value): the bold label at marginLeft and the value at
\* marginLeft + 50, both at currentY, which then advances by lineHeight.
printLine(doc, lh, label, value) ==
    IF value = "" THEN doc
    ELSE [lines    |-> Append(doc.lines,
                              [label |-> label \o ":", value |-> value, y |-> doc.currentY]),
          currentY |-> doc.currentY + lh]

\* Consecutive calls of printLine; calls is a sequence of <<label, value>>.
RECURSIVE printLines(_, _, _)
printLines(doc, lh, calls) ==
    IF calls = <<>> THEN doc
    ELSE Bind(printLine(doc, lh, Head(calls)[1], Head(calls)[2]),
              LAMBDA d : printLines(d, lh, Tail(calls)))

\* "1. Print Text" of generatePDF: the lines written, with currentY.
printText(pd, fs) ==
    Bind(lineHeight(fs), LAMBDA lh :
    Bind(printLines([lines |-> <<>>, currentY |-> marginTop * 100000], lh,
                    <<<<"Patient Name", pd.name>>,
                      <<"Address", pd.address>>,
                      <<"City, State, Zip", pd.cityStateZip>>,
                      <<"Home Phone", pd.homePhone>>,
                      <<"Daytime Phone", pd.daytimePhone>>,
                      <<"Date of Birth", pd.dob>>,
                      <<"Age", pd.age>>,
                      <<"Sex", pd.sex>>>>), LAMBDA d :
        IF pd.emergencyContact # "" \/ pd.emergencyPhone # ""
        THEN Bind(IF pd.emergencyContact # ""
                  THEN [d EXCEPT !.currentY = @ + lh \div 5]      \* lineHeight * 0.2
                  ELSE d, LAMBDA e :
                  printLines(e, lh, <<<<"Emerg. Contact", pd.emergencyContact>>,
                                      <<"Emerg. Phone", pd.emergencyPhone>>>>))
        ELSE d))

\* The arguments of doc.addImage for one image.
addImage(img) ==
    [src |-> img.src, format |-> "PNG",
     x |-> img.x * scaleFactor, y |-> img.y * scaleFactor,
     width |-> img.width * scaleFactor, height |-> img.height * scaleFactor]

\* "2. Print Images" of generatePDF: images.forEach(img => doc.addImage(...))
printImages(imgs) == [k \in 1..Len(imgs) |-> addImage(imgs[k])]

\* The name without the fallback for an empty name.
fileNameNoFallback(pd) == pd.name \o "_with_images.pdf"

\* The name doc.save is called with.
fileName(pd) == (IF pd.name # "" THEN pd.name ELSE "document") \o "_with_images.pdf"

\* A generatePDF that clears the selection.
generatePDFDeselect ==
    /\ saved' = [lines    |-> printText(parsedData, fontSize).lines,
                 embeds   |-> printImages(images),
                 filename |-> fileName(parsedData)]
    /\ selectedImageId' = null
    /\ UNCHANGED <<ocr, exportJob, inputText, parsedData, fontSize, images, dragInfo,
                   readers, now, nDown>>

generatePDF ==
    /\ saved' = [lines    |-> printText(parsedData, fontSize).lines,
                 embeds   |-> printImages(images),
                 filename |-> fileName(parsedData)]
    /\ UNCHANGED <<ocr, exportJob, inputText, parsedData, fontSize, images, selectedImageId,
                   dragInfo, readers, now, nDown>>

\* The minus button, the plus button and the range input of "Adjust Text Size".
decreaseFontSize ==
    /\ fontSize' = Max(4, fontSize - 1)
    /\ saved' = NoDoc
    /\ UNCHANGED <<ocr, exportJob, inputText, parsedData, images, selectedImageId, dragInfo,
                   readers, now, nDown>>

increaseFontSize ==
    /\ fontSize' = Min(30, fontSize + 1)
    /\ saved' = NoDoc
    /\ UNCHANGED <<ocr, exportJob, inputText, parsedData, images, selectedImageId, dragInfo,
                   readers, now, nDown>>

setFontSize(v) ==
    /\ fontSize' = v
    /\ saved' = NoDoc
    /\ UNCHANGED <<ocr, exportJob, inputText, parsedData, images, selectedImageId, dragInfo,
                   readers, now, nDown>>

\* A document naming every field.
FullText ==
    "Patient Name: Jane Doe\nAddress: 12 Oak St\nCity, State, Zip: Troy, NY 12180\n"
    \o "Home Phone: 555-1212\nDaytime Phone Number: 555-3434\n"
    \o "Emergency Contact: Bob\nEmerg Phone: 555-5656\n"
    \o "Date of Birth: 01/01/1980\nAGE: 45\nSEX: F"

\* The texts exported: the documents, and one line of Lines alone or after a
\* line that names the patient.
ExportTexts ==
    Documents \cup {FullText} \cup Lines
        \cup {JoinLines(<<"Patient Name: Jane Doe", l>>) : l \in Lines}

\* The text is entered into the empty textarea of a page without images (step 1
\* of the page); font size and images are set with the text in place.
EnterText ==
    \E t \in ExportTexts :
        inputText = "" /\ images = <<>> /\ readers = <<>> /\ SetInputText(t)
ClearText == inputText # "" /\ SetInputText("")
DecreaseFont == decreaseFontSize
IncreaseFont == increaseFontSize
SlideFont == \E v \in 4..24 : setFontSize(v)
\* A Download button that is never disabled.
DownloadAlways == generatePDF

\* The Download button is disabled while parsedData.name is empty.
Download == parsedData.name # "" /\ generatePDF

NextExport ==
    \/ EnterText
    \/ ClearText
    \/ DecreaseFont
    \/ IncreaseFont
    \/ SlideFont
    \/ Paste
    \/ ReaderLoad
    \/ Download

SpecExport == Init /\ [][NextExport]_vars


(***************************************************************************)
(* The handlers called directly, as a test of the component's functions    *)
(* calls them: handleMouseDown and removeImage with any id, also one that   *)
(* no image of the sequence has, and generatePDF whatever the name field.  *)
(* A sequence that holds undefined makes the next render throw (img.id of  *)
(* undefined): nothing happens after it.                                   *)
(***************************************************************************)
\* The ids passed: every value Date.now() takes, and one that it never takes.
AnyIds == 1..(MaxClock + 1)

CallTexts == {EndToEndText, "no label on this line"}

\* images.map(img => ... img.id ...) of the render throws a TypeError.
renderThrows == \E k \in 1..Len(images) : images[k] = undefined

\* The text is entered first, into the empty textarea of a page without images.
CallSetInputText ==
    \E t \in CallTexts :
        inputText = "" /\ images = <<>> /\ readers = <<>> /\ SetInputText(t)
CallPaste ==
    ~renderThrows /\ Len(images) + Len(readers) < MaxImages /\ handlePaste("dataA")
CallReaderLoad == ~renderThrows /\ ReaderLoad
CallClockTick == ~renderThrows /\ ClockTick
CallMouseDown ==
    \E id \in AnyIds, type \in {"move", "resize"} :
        ~renderThrows /\ nDown < MaxDown /\ handleMouseDown(id, type, 0, 0)
CallMouseUp == ~renderThrows /\ MouseUp
CallRemoveImage == \E id \in AnyIds : ~renderThrows /\ removeImage(id)
CallGeneratePDF == ~renderThrows /\ generatePDF

NextCalls ==
    \/ CallSetInputText
    \/ CallPaste
    \/ CallReaderLoad
    \/ CallClockTick
    \/ CallMouseDown
    \/ CallMouseUp
    \/ CallRemoveImage
    \/ CallGeneratePDF

SpecCalls == Init /\ [][NextCalls]_vars


(***************************************************************************)
(* Interactions that begin while another is active: the mouseup of the     *)
(* first interaction is not delivered (the button is released outside the  *)
(* window), and another image is pressed.  A mouseup is delivered from the *)
(* second mousedown on.                                                    *)
(***************************************************************************)
MaxBegin == 2          \* mousedown events per behaviour

BeginPaste == Len(images) + Len(readers) < MaxImages /\ handlePaste("dataA")
BeginMove ==
    \E id \in Ids, p \in Pointer : nDown < MaxBegin /\ handleMouseDown(id, "move", p[1], p[2])
BeginResize ==
    \E id \in Ids :
        nDown < MaxBegin /\ id = selectedImageId /\ handleMouseDown(id, "resize", 0, 0)
LateMouseUp == nDown >= 2 /\ MouseUp

NextBegin ==
    \/ BeginPaste
    \/ ReaderLoad
    \/ ClockTick
    \/ BeginMove
    \/ BeginResize
    \/ MouseMove
    \/ LateMouseUp

SpecBegin == Init /\ [][NextBegin]_vars


(***************************************************************************)
(* Rotation, bake and the export that awaits the bakes.  The sources of    *)
(* this model hold no rotation code; this part follows sections 3, 4.2,    *)
(* 4.3 and 5 of the specification.  A placed image carries a rotation in   *)
(* degrees; the model takes multiples of 90, for which the sines and       *)
(* cosines are exact.                                                      *)
(***************************************************************************)
MaxScene == 2          \* images of an initial scene

Rotations == {-450, -360, 0, 90, 180, 720}

\* Stored boxes, by position in the scene; width - height is even, so the
\* halves below are whole pixels.
Boxes ==
    <<[x |-> 0, y |-> 0, width |-> 100, height |-> 50],
      [x |-> 20, y |-> 100, width |-> 150, height |-> 100]>>

\* |cos| and |sin| of an angle that is a multiple of 90 degrees.
absCos(deg) == IF deg % 180 = 0 THEN 1 ELSE 0
absSin(deg) == IF deg % 180 = 0 THEN 0 ELSE 1

\* The bitmap bake rasterizes: src turned about its centre by deg, a new data URL.
rasterize(src, deg) == src \o "@" \o ToString(deg % 360)

\* bake that takes only the rotation 0 itself for "no rotation".
bakeZeroOnly(img) ==
    IF img.rotation = 0
    THEN [bitmap |-> img.src, x |-> img.x, y |-> img.y,
          width |-> img.width, height |-> img.height]
    ELSE LET newW == img.width * absCos(img.rotation) + img.height * absSin(img.rotation)
             newH == img.width * absSin(img.rotation) + img.height * absCos(img.rotation)
         IN [bitmap |-> rasterize(img.src, img.rotation),
             x |-> img.x + (img.width - newW) \div 2,
             y |-> img.y + (img.height - newH) \div 2,
             width |-> newW, height |-> newH]

\* bake that keeps the top-left corner instead of the centre.
bakeTopLeft(img) ==
    IF img.rotation % 360 = 0
    THEN [bitmap |-> img.src, x |-> img.x, y |-> img.y,
          width |-> img.width, height |-> img.height]
    ELSE LET newW == img.width * absCos(img.rotation) + img.height * absSin(img.rotation)
             newH == img.width * absSin(img.rotation) + img.height * absCos(img.rotation)
         IN [bitmap |-> rasterize(img.src, img.rotation),
             x |-> img.x, y |-> img.y, width |-> newW, height |-> newH]

\* bake(image) -> {bitmap, x, y, width, height}: the stored bitmap and geometry
\* if the rotation is zero (mod 360); otherwise the rotated bounding box
\* newW = w|cos| + h|sin|, newH = w|sin| + h|cos|, placed so that its centre is
\* the centre (x + w/2, y + h/2) of the stored box: newX = cx - newW/2.
bake(img) ==
    IF img.rotation % 360 = 0
    THEN [bitmap |-> img.src, x |-> img.x, y |-> img.y,
          width |-> img.width, height |-> img.height]
    ELSE LET newW == img.width * absCos(img.rotation) + img.height * absSin(img.rotation)
             newH == img.width * absSin(img.rotation) + img.height * absCos(img.rotation)
         IN [bitmap |-> rasterize(img.src, img.rotation),
             x |-> img.x + (img.width - newW) \div 2,
             y |-> img.y + (img.height - newH) \div 2,
             width |-> newW, height |-> newH]

\* The arguments of doc.addImage for a baked image (generatePDF's scaling).
embedBaked(b) ==
    [src |-> b.bitmap, format |-> "PNG",
     x |-> b.x * scaleFactor, y |-> b.y * scaleFactor,
     width |-> b.width * scaleFactor, height |-> b.height * scaleFactor]

\* The indices of the job's images whose bake has completed.
bakedIndices(job) == {job.baked[j].index : j \in 1..Len(job.baked)}

\* The result of the completed bake of the job's k-th image.
bakedResult(job, k) ==
    job.baked[CHOOSE j \in 1..Len(job.baked) : job.baked[j].index = k].result

\* The indices of the job's images that are embedded.
embeddedIndices(job) == {job.embedded[j] : j \in 1..Len(job.embedded)}

\* An embed of whichever image has its bake completed.
canEmbedOnceBaked(job, k) ==
    /\ k \notin embeddedIndices(job)
    /\ k \in bakedIndices(job)

\* The k-th image may be embedded: the images before it are embedded and its
\* own bake has completed.
canEmbed(job, k) ==
    /\ k = Len(job.embedded) + 1
    /\ k \in bakedIndices(job)

\* export begins: the text pass is written and the bake of every image of the
\* sequence, as it stands now, is started.
startExport ==
    /\ ~exportJob.running
    /\ exportJob' = [running |-> TRUE, images |-> images, baked |-> <<>>,
                     embedded |-> <<>>,
                     doc |-> [lines    |-> printText(parsedData, fontSize).lines,
                              embeds   |-> <<>>,
                              filename |-> fileName(parsedData)]]
    /\ saved' = NoDoc
    /\ UNCHANGED <<ocr, inputText, parsedData, fontSize, images, selectedImageId,
                   dragInfo, readers, now, nDown>>

\* The asynchronous rasterization of the job's k-th image completes.
bakeDone(k) ==
    /\ exportJob.running
    /\ k \in 1..Len(exportJob.images) \ bakedIndices(exportJob)
    /\ exportJob' = [exportJob EXCEPT
                        !.baked = Append(@, [index |-> k, result |-> bake(exportJob.images[k])])]
    /\ saved' = NoDoc
    /\ UNCHANGED <<ocr, inputText, parsedData, fontSize, images, selectedImageId,
                   dragInfo, readers, now, nDown>>

\* The export embeds the next image of its sequence, scaled to the page.
embedNext(k) ==
    /\ exportJob.running
    /\ canEmbed(exportJob, k)
    /\ exportJob' = [exportJob EXCEPT
                        !.embedded = Append(@, k),
                        !.doc.embeds = Append(@, embedBaked(bakedResult(exportJob, k)))]
    /\ saved' = NoDoc
    /\ UNCHANGED <<ocr, inputText, parsedData, fontSize, images, selectedImageId,
                   dragInfo, readers, now, nDown>>

\* Every image is embedded: the document is saved.
finishExport ==
    /\ exportJob.running
    /\ Len(exportJob.embedded) = Len(exportJob.images)
    /\ saved' = exportJob.doc
    /\ exportJob' = [exportJob EXCEPT !.running = FALSE]
    /\ UNCHANGED <<ocr, inputText, parsedData, fontSize, images, selectedImageId,
                   dragInfo, readers, now, nDown>>

\* An initial scene: images 1..n, each turned by one of Rotations, stacked in
\* the order of their ids, beside the end-to-end text.
Scenes == UNION {[1..n -> Rotations] : n \in 1..MaxScene}

placed(scene) ==
    [k \in 1..Len(scene) |->
        LET box == Boxes[1 + ((k - 1) % Len(Boxes))]
        IN [id |-> k, src |-> (IF k % 2 = 1 THEN "dataA" ELSE "dataB"),
            x |-> box.x, y |-> box.y, width |-> box.width, height |-> box.height,
            rotation |-> scene[k]]]

InitBake ==
    /\ inputText = EndToEndText
    /\ parsedData = parseData(EndToEndText)
    /\ fontSize = 14
    /\ images \in {placed(scene) : scene \in Scenes}
    /\ selectedImageId = null
    /\ dragInfo = InitialDrag
    /\ readers = <<>>
    /\ now = MaxScene + 1
    /\ nDown = 0
    /\ saved = NoDoc
    /\ exportJob = NoJob
    /\ ocr = InitialOcr

StartExport == parsedData.name # "" /\ startExport
BakeDone == \E k \in 1..Len(exportJob.images) : bakeDone(k)
EmbedNext == \E k \in 1..Len(exportJob.images) : embedNext(k)
FinishExport == finishExport
\* The page stays live while the bakes are awaited.
PressImage == \E id \in Ids : nDown < MaxDown /\ handleMouseDown(id, "move", 0, 0)

NextBake ==
    \/ StartExport
    \/ BakeDone
    \/ EmbedNext
    \/ FinishExport
    \/ PressImage
    \/ MouseUp
    \/ Remove

SpecBake == InitBake /\ [][NextBake]_vars


(***************************************************************************)
(* The scanning App (src/src/App.jsx): an uploaded image is recognized by  *)
(* Tesseract and the recognized text parsed by parseOCRText.               *)
(***************************************************************************)
MaxScans == 2          \* recognitions in flight at one time

\* The positions of the case-insensitive occurrences of label in text.
Occurrences(text, label) ==
    Bind(foldCase(text), LAMBDA low :
    Bind(foldCase(label), LAMBDA lab :
        {i \in 1..(Len(low) - Len(lab) + 1) : SubSeq(low, i, i + Len(lab) - 1) = lab}))

\* The match of  \s* [:;] \s* ([^\n]+)  directly after position e of text:
\* <<capture>>, or <<>> if there is none.  The second \s* is greedy and gives
\* back characters only when it has run to the end of the text.
matchAfter(text, e) ==
    Bind(SkipWhile(text, e, WhiteSpace), LAMBDA a :
        IF a > Len(text) \/ CharAt(text, a) \notin {":", ";"} THEN <<>>
        ELSE Bind(SkipWhile(text, a + 1, WhiteSpace), LAMBDA c :
                 IF c <= Len(text)
                 THEN <<SubSeq(text, c, SkipWhile(text, c, {"\n"} \cup
                           {CharAt(text, k) : k \in {j \in c..Len(text) :
                               \A m \in c..j : CharAt(text, m) # "\n"}}) - 1)>>
                 ELSE Bind({k \in (a + 1)..Len(text) : CharAt(text, k) # "\n"}, LAMBDA ok :
                          IF ok = {} THEN <<>>
                          ELSE <<SubSeq(text, MaxOf(ok), Len(text))>>)))

\* extract(label) of parseOCRText: the trimmed capture of the leftmost match.
extract(text, label) ==
    Bind({i \in Occurrences(text, label) : matchAfter(text, i + Len(label)) # <<>>},
         LAMBDA at :
             IF at = {} THEN ""
             ELSE trim(matchAfter(text, MinOf(at) + Len(label))[1]))

parseOCRText(text) ==
    [patientName  |-> extract(text, "Patient Name"),
     address      |-> extract(text, "Address"),
     cityStateZip |-> extract(text, "City, State, Zip"),
     phone        |-> extract(text, "Home Phone Number"),
     dob          |-> extract(text, "Date of Birth"),
     age          |-> extract(text, "AGE"),
     sex          |-> extract(text, "SEX"),
     referral     |-> extract(text, "Referral"),
     insurance    |-> extract(text, "Insurance Carrier"),
     rawText      |-> text]

\* The files uploaded and the texts Tesseract recognizes in them.
Files == {"scanA", "scanB"}
OcrTexts == {"Patient Name: Jane Doe\nAGE: 45", "Patient Name\n: John Roe\nSEX; M \n"}

\* The text Tesseract.recognize resolves with for each file.
Tesseract ==
    [f \in Files |-> IF f = "scanA" THEN "Patient Name: Jane Doe\nAGE: 45"
                                     ELSE "Patient Name\n: John Roe\nSEX; M \n"]

\* URL.createObjectURL(file)
createObjectURL(file) == "blob:" \o file

\* The sequence without its k-th element.
removeAt(seq, k) == [j \in 1..(Len(seq) - 1) |-> IF j < k THEN seq[j] ELSE seq[j + 1]]

\* handleImageUpload with a file chosen: the preview is set, parsedData is
\* cleared and processImage starts the recognition.
handleImageUpload(file) ==
    /\ ocr' = [ocr EXCEPT
                  !.image = <<createObjectURL(file)>>,
                  !.parsedData = <<>>,
                  !.loading = TRUE,
                  !.progress = 0,
                  !.recognitions = Append(@, [file |-> file,
                                              image |-> ocr.image,
                                              parsedData |-> ocr.parsedData]),
                  !.alert = ""]
    /\ UNCHANGED pageVars

\* The logger of a recognition in flight reports progress.
logger(k, percent) ==
    /\ ocr' = [ocr EXCEPT !.progress = percent, !.alert = ""]
    /\ UNCHANGED pageVars

\* The promise of the k-th recognition resolves with text.
recognized(k, text) ==
    /\ ocr' = [ocr EXCEPT
                  !.parsedData = <<parseOCRText(text)>>,
                  !.loading = FALSE,
                  !.recognitions = removeAt(@, k),
                  !.alert = ""]
    /\ UNCHANGED pageVars

\* A failed that leaves loading as it is.
failedKeepsLoading(k) ==
    /\ ocr' = [ocr EXCEPT
                  !.recognitions = removeAt(@, k),
                  !.alert = "Failed to scan image."]
    /\ UNCHANGED pageVars

\* The promise of the k-th recognition rejects: the catch handler runs.
failed(k) ==
    /\ ocr' = [ocr EXCEPT
                  !.loading = FALSE,
                  !.recognitions = removeAt(@, k),
                  !.alert = "Failed to scan image."]
    /\ UNCHANGED pageVars

\* The promise of the k-th recognition resolves with data whose text is no
\* string: text.match in parseOCRText throws a TypeError inside the then
\* handler, before setParsedData; the promise then returns is rejected and the
\* catch handler runs.
threw(k) == failed(k)

Upload == \E f \in Files : Len(ocr.recognitions) < MaxScans /\ handleImageUpload(f)
Progress == \E k \in 1..Len(ocr.recognitions), pc \in {50, 100} : logger(k, pc)
Recognized ==
    \E k \in 1..Len(ocr.recognitions) : recognized(k, Tesseract[ocr.recognitions[k].file])
Failed == \E k \in 1..Len(ocr.recognitions) : failed(k)
ParseThrows == \E k \in 1..Len(ocr.recognitions) : threw(k)

NextOcr ==
    \/ Upload
    \/ Progress
    \/ Recognized
    \/ Failed
    \/ ParseThrows

SpecOcr == Init /\ [][NextOcr]_vars

\* Every recognition promise in flight eventually settles: while one is in
\* flight, its resolution (with or without a throwing parse) or its rejection
\* eventually takes place.
Settle == Failed \/ ParseThrows \/ Recognized

SpecOcrLive == Init /\ [][NextOcr]_vars /\ WF_vars(Settle)


(***************************************************************************)
(* Properties of the field extractor (checked under SpecExtract).          *)
(***************************************************************************)
BleedText == "Daytime Phone: Emergency Contact: Bob"
JaneLine == "Patient Name: Jane Doe"

\* The positions at which line occupies a whole line of text.
LineStarts(text, line) ==
    LET n == Len(line)
    IN {i \in 1..(Len(text) - n + 1) :
           /\ SubSeq(text, i, i + n - 1) = line
           /\ (i = 1 \/ CharAt(text, i - 1) \in LineTerminators)
           /\ (i + n - 1 = Len(text) \/ CharAt(text, i + n) \in LineTerminators)}

\* C1: for the text "Daytime Phone: Emergency Contact: Bob" the field
\* daytimePhone is never the raw remainder "Emergency Contact: Bob".
C1_AntiBleed ==
    inputText = BleedText => parsedData.daytimePhone # "Emergency Contact: Bob"

\* The fields whose candidate list holds a label and a longer label it prefixes.
OverlapCases ==
    {<<"homePhone", "Home Phone Number">>,
     <<"daytimePhone", "Daytime Phone Number">>,
     <<"emergencyPhone", "Emergency Phone Number">>}

\* C2: a text whose only line is "<longer label>: v" yields exactly v for the
\* field; the shorter label does not match first.
C2_NoShadow ==
    \A c \in OverlapCases :
        inputText = c[2] \o ": 555-1212" => parsedData[c[1]] = "555-1212"

\* C3 as stated: every text holding the line "Patient Name: Jane Doe" on a line
\* by itself gives name = "Jane Doe", whatever precedes or follows the line.
C3_AnyPosition ==
    LineStarts(inputText, JaneLine) # {} => parsedData.name = "Jane Doe"

\* C3 amended: every text holding the line "Patient Name: Jane Doe" on a line by
\* itself, with no occurrence of "Patient Name" (in any letter case) before
\* that line, gives name = "Jane Doe".
C3_FirstOccurrence ==
    IndexOfLabel(inputText, "Patient Name") \in LineStarts(inputText, JaneLine)
        => parsedData.name = "Jane Doe"

\* The line is preceded by another line, is the first to name the label, and
\* the name was extracted from it.
C3_Witness ==
    /\ IndexOfLabel(inputText, "Patient Name") \in LineStarts(inputText, JaneLine)
    /\ IndexOfLabel(inputText, "Patient Name") > 1
    /\ parsedData.name = "Jane Doe"

\* The fields of the FieldSet with their candidate labels.
Candidates ==
    [name             |-> NameLabels,
     address          |-> AddressLabels,
     cityStateZip     |-> CityStateZipLabels,
     homePhone        |-> HomePhoneLabels,
     daytimePhone     |-> DaytimePhoneLabels,
     emergencyContact |-> EmergencyContactLabels,
     emergencyPhone   |-> EmergencyPhoneLabels,
     dob              |-> DobLabels,
     age              |-> AgeLabels,
     sex              |-> SexLabels]

\* The trimmed remainder of the line of the first occurrence of label in text;
\* "" if the label does not occur.
Remainder(text, label) ==
    Bind(matchLabel(text, label), LAMBDA m : IF m = <<>> THEN "" ELSE trim(m[1]))

\* A remainder the anti-bleed rule discards.
Discarded(val) == includes(val, ":") /\ Len(val) < 20

\* The value a candidate label yields: its remainder, unless that is empty or
\* discarded ("" stands for no accepted value).
Accepted(text, label) ==
    Bind(Remainder(text, label), LAMBDA val : IF Discarded(val) THEN "" ELSE val)

\* The value of the first candidate of labels that yields an accepted value.
RECURSIVE FirstAccepted(_, _)
FirstAccepted(text, labels) ==
    IF labels = <<>> THEN ""
    ELSE Bind(Accepted(text, Head(labels)), LAMBDA val :
              IF val # "" THEN val ELSE FirstAccepted(text, Tail(labels)))

\* The candidates after the i-th.
After(labels, i) == SubSeq(labels, i + 1, Len(labels))

\* C11: every field is the value of the first of its candidates, in list order,
\* that yields an accepted value; the text "Emerg Phone: 555-1212" gives
\* emergencyPhone = "555-1212".
C11_CandidatePriority ==
    /\ \A f \in DOMAIN Candidates :
           parsedData[f] = FirstAccepted(inputText, Candidates[f])
    /\ inputText = "Emerg Phone: 555-1212" => parsedData.emergencyPhone = "555-1212"

\* C12: when the candidates before the i-th do not occur in the text and the
\* i-th has a remainder that the anti-bleed rule discards, the field is the
\* value of the first later candidate that yields an accepted value, and empty
\* only if there is none.
C12_BleedFallThrough ==
    \A f \in DOMAIN Candidates :
        \A i \in 1..Len(Candidates[f]) :
            (/\ \A j \in 1..(i - 1) : IndexOfLabel(inputText, Candidates[f][j]) = 0
             /\ Remainder(inputText, Candidates[f][i]) # ""
             /\ Discarded(Remainder(inputText, Candidates[f][i])))
            => parsedData[f] = FirstAccepted(inputText, After(Candidates[f], i))

\* C13: when the candidates before the i-th do not occur in the text, the i-th
\* occurs with a remainder that is empty after trimming, and the first later
\* candidate with a non-empty remainder has one that is not discarded, the field
\* is that remainder.
C13_EmptyFallThrough ==
    \A f \in DOMAIN Candidates :
        \A i \in 1..Len(Candidates[f]) :
            \A n \in (i + 1)..Len(Candidates[f]) :
                (/\ \A j \in 1..(i - 1) : IndexOfLabel(inputText, Candidates[f][j]) = 0
                 /\ IndexOfLabel(inputText, Candidates[f][i]) # 0
                 /\ \A j \in i..(n - 1) : Remainder(inputText, Candidates[f][j]) = ""
                 /\ Remainder(inputText, Candidates[f][n]) # ""
                 /\ ~Discarded(Remainder(inputText, Candidates[f][n])))
                => parsedData[f] = Remainder(inputText, Candidates[f][n])

\* C14: the FieldSet has exactly the ten fields, each a string, and a field is
\* the empty string when none of its candidate labels occurs in the text.
C14_AlwaysStrings ==
    /\ DOMAIN parsedData = DOMAIN Candidates
    /\ \A f \in DOMAIN Candidates :
           /\ parsedData[f] \in STRING
           /\ (\A i \in 1..Len(Candidates[f]) :
                   IndexOfLabel(inputText, Candidates[f][i]) = 0) => parsedData[f] = ""

\* A text of two lines without any label has been extracted: every field empty.
C14_Witness ==
    /\ inputText = "no label on this line\nno label on this line"
    /\ \A f \in DOMAIN Candidates : parsedData[f] = ""

\* Labels whose pattern does not compile: a group left open, a ")" without
\* its "(", a quantifier with nothing to repeat.
BadLabels == {"Home Phone (", ") Phone", "+1 Phone"}

\* labels with bad put in front of its n-th element (behind the last, if n
\* is Len(labels) + 1).
WithLabelAt(labels, n, bad) ==
    SubSeq(labels, 1, n - 1) \o <<bad>> \o SubSeq(labels, n, Len(labels))

\* The places an uncompilable label is put at: in front of the list, behind
\* its first label, and behind its last label.
BadPlacements(labels) ==
    {<<1, "Home Phone (">>, <<2, "+1 Phone">>, <<Len(labels) + 1, ") Phone">>}

\* C28: for every field, a candidate list that holds a label whose pattern
\* does not compile yields the value the list without that label yields (the
\* value extracted into parsedData): the label is passed over and the
\* candidates after it are tried.
C28_BadLabelSkipped ==
    /\ \A bad \in BadLabels : RegExpThrows(bad)
    /\ \A f \in DOMAIN Candidates :
           \A pl \in BadPlacements(Candidates[f]) :
               findValue(inputText, WithLabelAt(Candidates[f], pl[1], pl[2])) = parsedData[f]

\* A home phone stands in the text under the second label of a list whose
\* first label does not compile, and is extracted.
C28_Witness ==
    /\ inputText = "Home Phone Number: 555-1212"
    /\ parsedData.homePhone = "555-1212"
    /\ RegExpThrows("Home Phone (")
    /\ findValue(inputText, <<"Home Phone (", "Home Phone Number">>) = "555-1212"

(***************************************************************************)
(* Properties of the text-only variant (checked under SpecTopHalf).        *)
(***************************************************************************)
\* The labels tried for each field of the text-only variant.
TopHalfLabels ==
    [name             |-> <<"Patient Name">>,
     address          |-> <<"Address">>,
     cityStateZip     |-> <<"City, State, Zip">>,
     homePhone        |-> <<"Home Phone Number">>,
     daytimePhone     |-> <<"Daytime Phone Number">>,
     emergencyContact |-> <<"Emergency Contact">>,
     emergencyPhone   |-> <<"Emergency Phone", "Emergency Phone Number">>,
     dob              |-> <<"Date of Birth">>,
     age              |-> <<"AGE">>,
     sex              |-> <<"SEX">>,
     referral         |-> <<"Referral">>,
     insurance        |-> <<"Insurance Carrier", "Primary Insurance">>,
     subscriber       |-> <<"Insured ID", "Member ID", "Policy Number">>,
     group            |-> <<"Group", "Group Number">>]

\* v is part of s.
IsPartOf(v, s) == \E j \in 1..(Len(s) - Len(v) + 1) : SubSeq(s, j, j + Len(v) - 1) = v

\* v stands on a line of text behind an occurrence of one of the labels.
OnLabelLine(text, labels, v) ==
    \E n \in 1..Len(labels) :
        \E i \in Occurrences(text, labels[n]) :
            IsPartOf(v, SubSeq(text, i + Len(labels[n]),
                               EndOfLine(text, i + Len(labels[n])) - 1))

\* C26: a field's value that is not empty stands on the line of an occurrence
\* of one of the field's labels, behind that label: it holds no text of a
\* following line.  Stated of the extraction of both variants of findValue.
C26_SameLine ==
    /\ \A f \in DOMAIN parsedData :
           parsedData[f] # "" => OnLabelLine(inputText, TopHalfLabels[f], parsedData[f])
    /\ \A f \in DOMAIN Candidates :
           parseData(inputText)[f] # ""
               => OnLabelLine(inputText, Candidates[f], parseData(inputText)[f])

(***************************************************************************)
(* Properties of the image model (checked under SpecImage).                *)
(***************************************************************************)
\* The images of arr whose id is not id, in order.
Others(arr, id) == SelectSeq(arr, LAMBDA img : img.id # id)

C5_SizeFloor ==
    /\ [](\A k \in 1..Len(images) : images[k].width >= 20 /\ images[k].height >= 20)
    /\ [][dragInfo.isResizing /\ dragInfo' = dragInfo /\ images' # images
              /\ Len(images') = Len(images) /\ nDown' = nDown =>
            \E p \in Pointer :
                LET w == dragInfo.initialW + (p[1] - dragInfo.startX)
                    h == dragInfo.initialH + (p[2] - dragInfo.startY)
                IN \A k \in 1..Len(images) :
                       images[k].id = dragInfo.targetId =>
                           /\ images'[k].width = (IF w < 20 THEN 20 ELSE w)
                           /\ images'[k].height = (IF h < 20 THEN 20 ELSE h)
      ]_vars

\* A resize with a large negative delta has clamped both dimensions.
C5_Witness ==
    /\ dragInfo.isResizing
    /\ \E k \in 1..Len(images) :
           /\ images[k].id = dragInfo.targetId
           /\ images[k].width = 20 /\ images[k].height = 20
           /\ dragInfo.initialW > 20 /\ dragInfo.initialH > 20

\* C6: a reader's onload (the step that takes a reader out of flight) on a
\* collection of n images yields n+1 images, the new one last, 150 by 100, at
\* (20 + 15*(n mod 10), 100 + 15*(n mod 10)), and selected.
C6_AddImage ==
    [][Len(readers') < Len(readers) =>
            LET n == Len(images)
                new == images'[n + 1]
            IN /\ Len(images') = n + 1
               /\ SubSeq(images', 1, n) = images
               /\ new.width = 150 /\ new.height = 100
               /\ new.x = 20 + 15 * (n % 10)
               /\ new.y = 100 + 15 * (n % 10)
               /\ selectedImageId' = new.id
      ]_vars

\* The positions of the images that are shown selected.
SelectedImages == {k \in 1..Len(images) : images[k].id = selectedImageId}

\* C16: at most one image is selected and the selection is none or the id of
\* an image of the sequence; a step that removes images (and is no mousedown)
\* sets the selection to none if it removed the selected id and leaves the
\* selection unchanged otherwise.
C16_Selection ==
    /\ [](/\ Cardinality(SelectedImages) <= 1
          /\ (selectedImageId = null \/ selectedImageId \in Ids))
    /\ [][nDown' = nDown /\ Len(images') < Len(images) =>
              LET gone == Ids \ {images'[k].id : k \in 1..Len(images')}
              IN selectedImageId' = (IF selectedImageId \in gone THEN null
                                     ELSE selectedImageId)
         ]_vars

\* C20: an update of an interaction (a step that changes images while the
\* snapshot in dragInfo stays) puts every image with the target id where the
\* snapshot and one pointer position put it: at snapshot position + delta for a
\* move, at max(20, snapshot size + delta) for a resize, the delta measured from
\* the start pointer; it does not depend on the geometry before the update.
C20_FromSnapshot ==
    [][(dragInfo.isDragging \/ dragInfo.isResizing) /\ dragInfo' = dragInfo
           /\ nDown' = nDown /\ Len(images') = Len(images) /\ images' # images =>
          \E p \in Pointer :
              LET dx == p[1] - dragInfo.startX
                  dy == p[2] - dragInfo.startY
              IN \A k \in 1..Len(images) :
                     images[k].id = dragInfo.targetId =>
                         IF dragInfo.isDragging
                         THEN /\ images'[k].x = dragInfo.initialX + dx
                              /\ images'[k].y = dragInfo.initialY + dy
                         ELSE /\ images'[k].width = Max(20, dragInfo.initialW + dx)
                              /\ images'[k].height = Max(20, dragInfo.initialH + dy)
      ]_vars

\* A move has displaced its target by the pointer delta (-200, -300).
C20_Witness ==
    /\ dragInfo.isDragging
    /\ dragInfo.startX = 0 /\ dragInfo.startY = 0
    /\ \E k \in 1..Len(images) :
           /\ images[k].id = dragInfo.targetId
           /\ images[k].x = dragInfo.initialX - 200
           /\ images[k].y = dragInfo.initialY - 300

\* The identities (id and bitmap) of the images of arr, each with the number
\* of images that carry it.
Identities(arr) ==
    LET idOf(k) == <<arr[k].id, arr[k].src>>
    IN [p \in {idOf(k) : k \in 1..Len(arr)} |->
           Cardinality({k \in 1..Len(arr) : idOf(k) = p})]

\* C21: a mousedown, an update and a mouseup leave the identities of the
\* images as they were (the sequence after is a permutation of the sequence
\* before); the sequence grows only in a reader's onload, by one image, and
\* shrinks only by one image, the one whose id is removed.
C21_IdentityPreserved ==
    [][/\ (nDown' # nDown \/ dragInfo' # dragInfo \/ Len(images') = Len(images))
              => Identities(images') = Identities(images)
       /\ Len(images') > Len(images)
              => Len(readers') < Len(readers) /\ Len(images') = Len(images) + 1
       /\ Len(images') < Len(images) /\ nDown' = nDown
              => /\ Len(images') = Len(images) - 1
                 /\ \E k \in 1..Len(images) : images' = removeAt(images, k)
      ]_vars

\* C22: the ids of the images of the sequence are pairwise distinct.
C22_UniqueIds ==
    \A j, k \in 1..Len(images) : j # k => images[j].id # images[k].id

\* C23: an update (a step that changes images while the snapshot in dragInfo
\* stays) changes one image, the target: of a resize only its width and
\* height, of a move only its x and y; every other image, the order of the
\* sequence and the selection stay as they were.
C23_UpdateFrame ==
    [][(dragInfo.isDragging \/ dragInfo.isResizing) /\ dragInfo' = dragInfo
           /\ nDown' = nDown /\ Len(images') = Len(images) /\ images' # images =>
          /\ selectedImageId' = selectedImageId
          /\ \E t \in 1..Len(images) :
                 /\ images[t].id = dragInfo.targetId
                 /\ \A k \in 1..Len(images) : k # t => images'[k] = images[k]
                 /\ images'[t].id = images[t].id
                 /\ images'[t].src = images[t].src
                 /\ IF dragInfo.isResizing
                    THEN images'[t].x = images[t].x /\ images'[t].y = images[t].y
                    ELSE /\ images'[t].width = images[t].width
                         /\ images'[t].height = images[t].height
      ]_vars

\* An interaction is active in the snapshot info.
Active(info) == info.isDragging \/ info.isResizing

\* C24: the mouseup that ends an interaction changes no image and not the
\* selection, and while no interaction is active a step that is no mousedown
\* and neither adds nor removes an image (a pointer update among them) leaves
\* every image as it was.
C24_EndInteraction ==
    [][/\ Active(dragInfo) /\ ~Active(dragInfo')
              => images' = images /\ selectedImageId' = selectedImageId
       /\ ~Active(dragInfo) /\ nDown' = nDown /\ Len(images') = Len(images)
              => images' = images
      ]_vars

\* An interaction that displaced an image has ended.
C24_Witness ==
    /\ nDown = 1
    /\ ~Active(dragInfo)
    /\ DOMAIN dragInfo = {"isDragging", "isResizing", "targetId"}
    /\ selectedImageId # null
    /\ \E k \in 1..Len(images) : images[k].x < 0

(***************************************************************************)
(* Properties of overlapping interactions (checked under SpecBegin).       *)
(***************************************************************************)
\* C25: dragInfo never holds both kinds; every mousedown, also one that
\* arrives while an interaction is active, makes the pressed image the one
\* target, with a snapshot of its geometry; and an update changes only images
\* with the id of the current snapshot, to the geometry that snapshot and a
\* pointer position give.
C25_SingleInteraction ==
    /\ [](~(dragInfo.isDragging /\ dragInfo.isResizing))
    /\ [][nDown' # nDown =>
              /\ Active(dragInfo')
              /\ dragInfo'.targetId = selectedImageId'
              /\ \E k \in 1..Len(images) :
                     /\ images[k].id = dragInfo'.targetId
                     /\ dragInfo'.initialX = images[k].x
                     /\ dragInfo'.initialY = images[k].y
                     /\ dragInfo'.initialW = images[k].width
                     /\ dragInfo'.initialH = images[k].height
         ]_vars
    /\ [][nDown' = nDown /\ Len(images') = Len(images) /\ images' # images =>
              \E p \in Pointer :
                  \A k \in 1..Len(images) :
                      images'[k] # images[k] =>
                          /\ images[k].id = dragInfo.targetId
                          /\ IF dragInfo.isDragging
                             THEN /\ images'[k].x = dragInfo.initialX + p[1] - dragInfo.startX
                                  /\ images'[k].y = dragInfo.initialY + p[2] - dragInfo.startY
                             ELSE /\ images'[k].width =
                                         Max(20, dragInfo.initialW + p[1] - dragInfo.startX)
                                  /\ images'[k].height =
                                         Max(20, dragInfo.initialH + p[2] - dragInfo.startY)
         ]_vars

\* The second mousedown arrived while the first interaction, a move that
\* displaced its target, was active; the second interaction resizes another
\* image and has shrunk it to the floor, and the first target stayed in place.
C25_Witness ==
    /\ nDown = 2
    /\ dragInfo.isResizing
    /\ Len(images) = 2
    /\ images[1].id # images[2].id
    /\ images[2].id = dragInfo.targetId
    /\ images[2].width = 20 /\ images[2].height = 20
    /\ images[1].x < 0
    /\ images[1].width = 150

(***************************************************************************)
(* Properties of the export (checked under SpecExport).                    *)
(***************************************************************************)
\* The fields in the order of the text pass, each with the label of its line.
FieldOrder ==
    <<<<"name", "Patient Name:">>, <<"address", "Address:">>,
      <<"cityStateZip", "City, State, Zip:">>, <<"homePhone", "Home Phone:">>,
      <<"daytimePhone", "Daytime Phone:">>, <<"dob", "Date of Birth:">>,
      <<"age", "Age:">>, <<"sex", "Sex:">>,
      <<"emergencyContact", "Emerg. Contact:">>, <<"emergencyPhone", "Emerg. Phone:">>>>

\* The label and value of every line of a document, in the order written.
Written(doc) == [k \in 1..Len(doc.lines) |-> <<doc.lines[k].label, doc.lines[k].value>>]

\* The label and value of every non-empty field of pd, in the fixed order.
NonEmptyFields(pd) ==
    SelectSeq([k \in 1..Len(FieldOrder) |-> <<FieldOrder[k][2], pd[FieldOrder[k][1]]>>],
              LAMBDA lv : lv[2] # "")

\* C7: the document an export writes holds exactly one line per non-empty
\* field and none for an empty field, in the order name, address, cityStateZip,
\* homePhone, daytimePhone, dob, age, sex, emergencyContact, emergencyPhone, each
\* on a line of its own; for the end-to-end text and no images these are the four
\* lines name, dob, age, sex, and no image is embedded.
C7_TextPass ==
    saved # NoDoc =>
        /\ Written(saved) = NonEmptyFields(parsedData)
        /\ \A j, k \in 1..Len(saved.lines) : j < k => saved.lines[j].y < saved.lines[k].y
        /\ (inputText = EndToEndText /\ images = <<>> =>
               /\ Written(saved) = <<<<"Patient Name:", "Alice Smith">>,
                                     <<"Date of Birth:", "01/01/1980">>,
                                     <<"Age:", "45">>, <<"Sex:", "F">>>>
               /\ saved.embeds = <<>>)

\* The end-to-end text has been exported with no image on the page.
C7_Witness ==
    /\ saved # NoDoc
    /\ inputText = EndToEndText
    /\ images = <<>>
    /\ Len(saved.lines) = 4

\* The positions of the lines of the emergency block in a document.
EmergencyLines(doc) ==
    {k \in 1..Len(doc.lines) : doc.lines[k].label \in {"Emerg. Contact:", "Emerg. Phone:"}}

\* C27: in an exported document with an emergency block, the first line of
\* the block lies one line height plus the gap (a fifth of the line height)
\* below the line written before it (below the top margin, if it is the first
\* line), whether the block begins with the contact or with the phone.
C27_EmergencyGap ==
    saved # NoDoc /\ EmergencyLines(saved) # {} =>
        LET k  == MinOf(EmergencyLines(saved))
            lh == lineHeight(fontSize)
        IN saved.lines[k].y =
               (IF k = 1 THEN marginTop * 100000 ELSE saved.lines[k - 1].y + lh)
                   + lh \div 5

\* C29: the export (the click on the Download button) is enabled exactly in
\* the states whose name field is not empty; it is not enabled in the initial
\* state nor whenever the textarea is empty.
C29_ExportAvailability ==
    /\ (ENABLED Download) <=> (parsedData.name # "")
    /\ inputText = "" => ~(ENABLED Download)

\* An export has taken place, of a text that names the patient and of one
\* image, and the button is enabled.
C29_Witness ==
    /\ saved # NoDoc
    /\ parsedData.name = "Jane Doe"
    /\ Len(saved.embeds) = 1
    /\ ENABLED Download


(***************************************************************************)
(* Properties of bake and of the export that awaits it (checked under      *)
(* SpecBake).                                                              *)
(***************************************************************************)
\* The images of a job in the order in which their bakes completed.
BakeOrder(job) == [j \in 1..Len(job.baked) |-> job.baked[j].index]

C9_BakeIdentity ==
    /\ \A j \in 1..Len(exportJob.baked) :
           LET img == exportJob.images[exportJob.baked[j].index]
           IN img.rotation % 360 = 0 =>
                  exportJob.baked[j].result =
                      [bitmap |-> img.src, x |-> img.x, y |-> img.y,
                       width |-> img.width, height |-> img.height]
    /\ saved # NoDoc =>
           \A k \in 1..Len(exportJob.images) :
               LET img == exportJob.images[k]
               IN img.rotation % 360 = 0 =>
                      saved.embeds[k] =
                          [src |-> img.src, format |-> "PNG",
                           x |-> img.x * scaleFactor, y |-> img.y * scaleFactor,
                           width |-> img.width * scaleFactor,
                           height |-> img.height * scaleFactor]

\* A saved document embeds an image turned by -360 and one turned by 720.
C9_Witness ==
    /\ saved # NoDoc
    /\ \E k \in 1..Len(exportJob.images) : exportJob.images[k].rotation = -360
    /\ \E k \in 1..Len(exportJob.images) : exportJob.images[k].rotation = 720

\* C10: the completed bake of an image turned by an odd multiple of 90 has the
\* stored height as width and the stored width as height, and the same centre
\* as the stored box (compared doubled, to stay in whole numbers); the box
\* 100 by 50 at (0, 0) turned by 90 is baked 50 by 100 with centre (50, 25).
C10_BakeGeometry ==
    \A j \in 1..Len(exportJob.baked) :
        LET img == exportJob.images[exportJob.baked[j].index]
            b   == exportJob.baked[j].result
        IN /\ img.rotation % 180 = 90 =>
                  /\ b.width = img.height /\ b.height = img.width
                  /\ 2 * b.x + b.width = 2 * img.x + img.width
                  /\ 2 * b.y + b.height = 2 * img.y + img.height
           /\ (img.rotation = 90 /\ img.x = 0 /\ img.y = 0
                   /\ img.width = 100 /\ img.height = 50) =>
                  /\ b.width = 50 /\ b.height = 100
                  /\ 2 * b.x + b.width = 2 * 50
                  /\ 2 * b.y + b.height = 2 * 25

\* The box 100 by 50 at (0, 0) turned by 90 has been baked, and so has an
\* image turned by -450.
C10_Witness ==
    /\ \E j \in 1..Len(exportJob.baked) :
           LET img == exportJob.images[exportJob.baked[j].index]
           IN img.rotation = 90 /\ img.x = 0 /\ img.y = 0
                  /\ img.width = 100 /\ img.height = 50
    /\ \E j \in 1..Len(exportJob.baked) :
           exportJob.images[exportJob.baked[j].index].rotation = -450


(***************************************************************************)
(* Properties of the handlers called directly (checked under SpecCalls).   *)
(***************************************************************************)
\* C15: a mousedown handled for an id that no image of the sequence has leaves
\* the sequence, the selection and the interaction state in dragInfo unchanged:
\* every step that handles a mousedown either selects an image of the sequence
\* or changes none of the three.  (A removeImage of such an id is a step that
\* changes none of them.)
C15_NoSuchIdNoOp ==
    [][nDown' # nDown =>
           \/ selectedImageId' \in Ids
           \/ /\ images' = images
              /\ selectedImageId' = selectedImageId
              /\ dragInfo' = dragInfo
      ]_vars

\* C18: every document saved has the file name "document_with_images.pdf" when
\* the name field is empty and the name followed by "_with_images.pdf" otherwise.
C18_FileName ==
    saved # NoDoc =>
        saved.filename = (IF parsedData.name = "" THEN "document_with_images.pdf"
                          ELSE parsedData.name \o "_with_images.pdf")

\* generatePDF has run with an empty name field and with an image on the page:
\* no text line, one embed, the fallback name.
C18_Witness ==
    /\ saved # NoDoc
    /\ parsedData.name = ""
    /\ saved.lines = <<>>
    /\ Len(saved.embeds) = 1
    /\ saved.filename = "document_with_images.pdf"


(***************************************************************************)
(* Properties of the scanning App (checked under SpecOcr).                 *)
(***************************************************************************)
\* C17: the step in which a recognition fails shows the failure message and
\* leaves loading false, and the image and parsedData displayed after it are
\* those displayed when the upload of that recognition began.
C17_FailureRestores ==
    [][ocr'.alert # "" =>
           /\ ~ocr'.loading
           /\ \E k \in 1..Len(ocr.recognitions) :
                  /\ ocr'.recognitions = removeAt(ocr.recognitions, k)
                  /\ ocr'.image = ocr.recognitions[k].image
                  /\ ocr'.parsedData = ocr.recognitions[k].parsedData
      ]_vars


\* C30: whenever loading is false and parsedData is not null, parsedData is
\* the extraction of the text of the file uploaded last, the file whose
\* preview is displayed.
C30_Freshness ==
    ~ocr.loading /\ ocr.parsedData # <<>> =>
        \E f \in Files :
            /\ ocr.image = <<createObjectURL(f)>>
            /\ ocr.parsedData[1] = parseOCRText(Tesseract[f])

\* C31: loading is true exactly when a recognition started by an upload has
\* neither resolved nor rejected.
C31_LoadingTracks ==
    ocr.loading <=> (ocr.recognitions # <<>>)

\* C32: when the recognition promises settle, every state with loading true
\* is followed by a state with loading false, whether the recognition
\* resolved, was rejected, or the parsing of its text threw.
C32_ScanTerminates ==
    ocr.loading ~> ~ocr.loading

\* A scan has ended in the catch handler (a rejection or a throwing parse)
\* and loading is false, no recognition being in flight.
C32_Witness ==
    /\ ~ocr.loading
    /\ ocr.alert = "Failed to scan image."
    /\ ocr.image # <<>>
    /\ ocr.recognitions = <<>>

\* C33: Export is read-only.  A step in which a document is saved leaves the
\* image sequence (elements, geometry, order), the selection, the
\* active-interaction state, the FieldSet and the font size as they were.
C33_ExportReadOnly ==
    [][saved' # NoDoc =>
          /\ images' = images
          /\ selectedImageId' = selectedImageId
          /\ dragInfo' = dragInfo
          /\ parsedData' = parsedData
          /\ fontSize' = fontSize]_vars

\* A document has been saved in the middle of an interaction with the selected
\* image, with fields extracted, and the image is in the document.
C33_Witness ==
    /\ saved # NoDoc
    /\ Active(dragInfo)
    /\ selectedImageId # null
    /\ selectedImageId = dragInfo.targetId
    /\ selectedImageId \in Ids
    /\ parsedData.name # ""
    /\ Len(saved.embeds) = Len(images)

\* C34: while an interaction is active whose target is no longer in the
\* sequence, every update (a step that keeps the snapshot in dragInfo and
\* neither adds nor removes an image) leaves the sequence unchanged, and no
\* step of the interaction brings an image with the target's id into the
\* sequence.
C34_RemovedTarget ==
    [][Active(dragInfo) /\ dragInfo.targetId \notin Ids /\ dragInfo' = dragInfo =>
          /\ nDown' = nDown /\ Len(images') = Len(images) => images' = images
          /\ \A k \in 1..Len(images') : images'[k].id # dragInfo.targetId
      ]_vars


====
